---- MODULE Spec2Model ----
(***************************************************************************)
(* Delivery Email Extractor (src/streamlit_app.py).                        *)
(*                                                                         *)
(* One run of main() is modelled as a sequence of steps (pc): schema       *)
(* creation, the button input, the completion call and normalisation, the  *)
(* JSON parse, the display of the extracted record, the insert, the        *)
(* statistics block and the history table.  The SQL store (table, rows,    *)
(* identity counter, server clock) persists across runs; everything a run  *)
(* shows to the user (ui) is reset when the script reruns.                 *)
(***************************************************************************)
EXTENDS Integers, Sequences, FiniteSets, TLC

\* Identity values the store may hand out while submissions are modelled.
MaxId == 2

\* Stored size of the NVARCHAR/FLOAT values is not modelled; a value is one
\* of a few representatives of each kind.

(***************************************************************************)
(* JSON objects returned by the model.                                     *)
(***************************************************************************)
TextFields == {"description", "order_id", "store", "tracking_number", "carrier"}

Fields == {"delivery", "price_num", "delivery_date"} \cup TextFields

\* A value a JSON member may hold; "" / 0 stand in for a member that is
\* absent or null (see absent, nulls below).
Blank ==
    [delivery |-> "", price_num |-> 0, delivery_date |-> "",
     description |-> "", order_id |-> "", store |-> "",
     tracking_number |-> "", carrier |-> ""]

\* A parsed JSON value: kind "dict" (val, minus the absent keys; the keys in
\* nulls hold None), kind "scalar" (a bare JSON number), or kind "none".
Dict(val, absent, nulls) ==
    [kind |-> "dict", val |-> val, absent |-> absent, nulls |-> nulls]

NoJson == [kind |-> "none", val |-> Blank, absent |-> Fields, nulls |-> {}]

Scalar == [kind |-> "scalar", val |-> Blank, absent |-> Fields, nulls |-> {}]

EmptyObject == Dict(Blank, Fields, {})

Full(d, p, dt) ==
    [delivery |-> d, price_num |-> p, delivery_date |-> dt,
     description |-> "x", order_id |-> "x", store |-> "x",
     tracking_number |-> "x", carrier |-> "x"]

\* key in data
Has(data, f) == data.kind = "dict" /\ f \notin data.absent

\* data[f] is None
IsNull(data, f) == Has(data, f) /\ f \in data.nulls

\* An object with the keys of S removed.
Without(val, S) ==
    Dict([f \in Fields |-> IF f \in S THEN Blank[f] ELSE val[f]], S, {})

\* An object whose member f is JSON null.
WithNull(val, f) ==
    Dict([g \in Fields |-> IF g = f THEN Blank[g] ELSE val[g]], {}, {f})

DeliveryValues == {"yes", "no", "YES", "maybe"}

PriceValues == {0, 3}

ValidDate == "2024-01-05"

\* The objects a completion may carry: every field present, one field
\* absent, one field null, an unparsable date, no field at all.
JsonObjects ==
    {Dict(Full(d, p, ValidDate), {}, {}) : d \in DeliveryValues, p \in PriceValues}
    \cup {Dict(Full("yes", 3, "soon"), {}, {})}
    \cup {Without(Full("yes", 3, ValidDate), {f}) : f \in Fields}
    \cup {WithNull(Full("yes", 3, ValidDate), f) : f \in {"price_num", "delivery_date"}}
    \cup {EmptyObject}

(***************************************************************************)
(* Completion text, as a sequence of lexical pieces: "ws" whitespace,      *)
(* "fence_json" and "fence" the markdown markers, "{" and "}", "kv" the    *)
(* members of the object the completion carries, "prose" any other text,   *)
(* "num" a bare JSON number.                                               *)
(***************************************************************************)
RawTexts ==
    { <<"{", "kv", "}">>,
      <<"prose", "ws", "fence_json", "ws", "{", "kv", "}", "ws", "fence">>,
      <<"fence_json", "{", "}", "fence", "ws">>,
      <<"prose">>,
      <<"ws", "{", "kv">>,
      <<"{", "kv", "}", "ws", "{", "kv", "}">>,
      <<"ws", "num", "ws">>,
      <<>> }

RECURSIVE Strip(_)
\* str.strip(): leading and trailing whitespace removed.
Strip(t) ==
    IF t = <<>> THEN t
    ELSE IF Head(t) = "ws" THEN Strip(Tail(t))
    ELSE IF t[Len(t)] = "ws" THEN Strip(SubSeq(t, 1, Len(t) - 1))
    ELSE t

RECURSIVE Remove(_, _)
\* Every piece of S removed from t.
Remove(t, S) ==
    IF t = <<>> THEN <<>>
    ELSE IF Head(t) \in S THEN Remove(Tail(t), S)
    ELSE <<Head(t)>> \o Remove(Tail(t), S)

Positions(t, c) == {i \in 1..Len(t) : t[i] = c}

Min(S) == CHOOSE x \in S : \A y \in S : x <= y

Max(S) == CHOOSE x \in S : \A y \in S : x >= y

\* The first "{" through the last "}" (greedy, dot matches newline), when a
\* "}" follows some "{".
BraceSpan(t) ==
    LET opens == {i \in Positions(t, "{") : \E j \in Positions(t, "}") : j > i}
    IN  IF opens = {} THEN <<>>
        ELSE SubSeq(t, Min(opens), Max(Positions(t, "}")))

HasBraceSpan(t) ==
    \E i \in Positions(t, "{") : \E j \in Positions(t, "}") : j > i

\* extract_valid_json: trim, drop the fence markers, return the brace span or
\* else the remaining text.
extract_valid_json(raw) ==
    LET text == Remove(Strip(raw), {"fence_json", "fence"})
    IN  IF HasBraceSpan(text) THEN BraceSpan(text) ELSE text

\* json.loads: whitespace between tokens is ignored; one object or one number
\* parses, anything else raises JSONDecodeError (NoJson).
json_loads(text, content) ==
    LET t == Remove(text, {"ws"})
    IN  IF t = <<"{", "kv", "}">> THEN content
        ELSE IF t = <<"{", "}">> THEN EmptyObject
        ELSE IF t = <<"num">> THEN Scalar
        ELSE NoJson

(***************************************************************************)
(* State.                                                                  *)
(***************************************************************************)
VARIABLES
    tableExists,    \* the delivery_details table exists in the database
    rows,           \* its rows, in insertion order
    nextId,         \* the next IDENTITY(1,1) value
    clock,          \* the server's GETDATE()
    inserted,       \* how many insert_into_db calls have returned True
    pc,             \* position of the current run of main()
    ui,             \* what the current run has shown, in order
    failed,         \* the stages of the current run that failed
    raised,         \* the stage whose exception escaped main(), or "none"
    openConns,      \* connections the current run opened and never closed
    db_fault,       \* the fault the store met in the last store call
    extracted_json, \* main's extracted_json (the normalised completion)
    content,        \* the members the completion's object carries
    parsed_json,    \* main's parsed_json
    text_shown,     \* the argument of st.text
    insert_result,  \* "none" (not called), "true", "false", "raised"
    stats,          \* the metrics of the statistics block, {} when not shown
    history_df      \* the frame handed to display_history_table

vars ==
    <<tableExists, rows, nextId, clock, inserted, pc, ui, failed, raised, openConns,
      db_fault, extracted_json, content, parsed_json, text_shown,
      insert_result, stats, history_df>>

store == <<tableExists, rows, nextId, clock, inserted>>

pipeline == <<extracted_json, content, parsed_json, text_shown, insert_result>>

\* The script reruns from the top on every interaction; nothing shown by the
\* previous run survives.
Init ==
    /\ tableExists = FALSE
    /\ rows = <<>>
    /\ nextId = 1
    /\ clock = 0
    /\ inserted = 0
    /\ pc = "idle"
    /\ ui = <<>>
    /\ failed = {}
    /\ raised = "none"
    /\ openConns = 0
    /\ db_fault = "none"
    /\ extracted_json = <<>>
    /\ content = EmptyObject
    /\ parsed_json = NoJson
    /\ text_shown = <<>>
    /\ insert_result = "none"
    /\ stats = {}
    /\ history_df = <<>>

\* st.<element>(...): the elements appear in the order they are emitted.
Show(msgs) == ui' = ui \o msgs

\* An exception nobody catches ends the run; Streamlit shows the traceback.
Escapes(stage) ==
    /\ pc' = "aborted"
    /\ raised' = stage
    /\ failed' = failed \cup {stage}

\* main() is entered (first load, or a rerun after an interaction).
StartRun ==
    /\ pc \in {"idle", "done", "aborted"}
    /\ pc' = "create"
    /\ ui' = <<>>
    /\ failed' = {}
    /\ raised' = "none"
    /\ openConns' = 0
    /\ db_fault' = "none"
    /\ extracted_json' = <<>>
    /\ content' = EmptyObject
    /\ parsed_json' = NoJson
    /\ text_shown' = <<>>
    /\ insert_result' = "none"
    /\ stats' = {}
    /\ history_df' = <<>>
    /\ UNCHANGED store

(***************************************************************************)
(* The store.  A store call meets at most one fault: the connection cannot *)
(* be opened, the statement fails, or the commit fails.                    *)
(***************************************************************************)
WriteFaults == {"none", "connect", "execute", "commit"}

ReadFaults == {"none", "connect", "execute"}

\* The statement without its IF NOT EXISTS guard: CREATE TABLE fails on a
\* table that is already there.
create_table_unguarded(fault) ==
    /\ db_fault' = fault
    /\ IF fault = "none" /\ ~tableExists
       THEN /\ tableExists' = TRUE
            /\ rows' = <<>>
            /\ openConns' = openConns
            /\ pc' = "input"
            /\ UNCHANGED <<failed, raised>>
       ELSE /\ UNCHANGED <<tableExists, rows>>
            /\ openConns' = IF fault = "connect" THEN openConns ELSE openConns + 1
            /\ Escapes("schema")
    /\ Show(IF fault = "none" /\ ~tableExists THEN <<>> ELSE <<"exception">>)
    /\ UNCHANGED <<nextId, clock, inserted, stats, history_df>>
    /\ UNCHANGED pipeline

\* create_table_if_not_exists, called at the top of every run.  No handler:
\* an exception escapes main, and the connection is closed only on the
\* straight path.
create_table_if_not_exists(fault) ==
    /\ db_fault' = fault
    /\ IF fault = "none"
       THEN /\ tableExists' = TRUE
            /\ rows' = IF tableExists THEN rows ELSE <<>>
            /\ openConns' = openConns
            /\ pc' = "input"
            /\ UNCHANGED <<failed, raised>>
       ELSE /\ UNCHANGED <<tableExists, rows>>
            /\ openConns' = IF fault = "connect" THEN openConns ELSE openConns + 1
            /\ Escapes("schema")
    /\ Show(IF fault = "none" THEN <<>> ELSE <<"exception">>)
    /\ UNCHANGED <<nextId, clock, inserted, stats, history_df>>
    /\ UNCHANGED pipeline

CreateTable ==
    /\ pc = "create"
    /\ \E fault \in WriteFaults : create_table_if_not_exists(fault)

\* A row of delivery_details: the eight inserted columns (val; the columns in
\* nulls hold NULL), the identity and the DEFAULT GETDATE() timestamp.
Row(id, data, now) ==
    [id |-> id, created_at |-> now, val |-> data.val, nulls |-> data.nulls]

\* The tuple of parameters raises KeyError (TypeError for a non-dict) unless
\* all eight keys are there.
HasAllKeys(data) == \A f \in Fields : Has(data, f)

\* The DATE column takes NULL or a calendar date; anything else fails the
\* conversion inside the INSERT.
DateConverts(data) ==
    IsNull(data, "delivery_date") \/ data.val.delivery_date = ValidDate

\* insert_into_db whose handler returns False without st.error.
insert_into_db_silent(data, fault, tick) ==
    LET ok == fault = "none" /\ HasAllKeys(data) /\ DateConverts(data)
        rolledBack == fault = "commit" /\ HasAllKeys(data) /\ DateConverts(data)
    IN  /\ db_fault' = fault
        /\ rows' = IF ok THEN Append(rows, Row(nextId, data, clock + tick)) ELSE rows
        /\ nextId' = IF ok \/ rolledBack THEN nextId + 1 ELSE nextId
        /\ clock' = IF ok THEN clock + tick ELSE clock
        /\ inserted' = IF ok THEN inserted + 1 ELSE inserted
        /\ openConns' = IF fault # "connect" /\ ~ok THEN openConns + 1 ELSE openConns
        /\ insert_result' = IF ok THEN "true" ELSE "false"
        /\ failed' = IF ok THEN failed ELSE failed \cup {"insert"}
        /\ Show(IF ok THEN <<"success">> ELSE <<>>)
        /\ pc' = "stats"
        /\ UNCHANGED <<tableExists, raised>>

\* insert_into_db: True after the commit, False (and st.error) on any
\* exception.  conn.close() is reached on the straight path only.  tick is
\* the time that passed on the server since the previous insert.
insert_into_db(data, fault, tick) ==
    LET connected == fault # "connect"
        ok == connected /\ HasAllKeys(data) /\ DateConverts(data) /\ fault = "none"
        \* the statement ran and took an identity value, the commit failed
        rolledBack == connected /\ HasAllKeys(data) /\ DateConverts(data)
                      /\ fault = "commit"
    IN  /\ db_fault' = fault
        /\ rows' = IF ok THEN Append(rows, Row(nextId, data, clock + tick)) ELSE rows
        /\ nextId' = IF ok \/ rolledBack THEN nextId + 1 ELSE nextId
        /\ clock' = IF ok THEN clock + tick ELSE clock
        /\ inserted' = IF ok THEN inserted + 1 ELSE inserted
        /\ openConns' = IF connected /\ ~ok THEN openConns + 1 ELSE openConns
        /\ insert_result' = IF ok THEN "true" ELSE "false"
        /\ failed' = IF ok THEN failed ELSE failed \cup {"insert"}
        /\ Show(IF ok THEN <<"success">> ELSE <<"error:db">>)
        /\ pc' = "stats"
        /\ UNCHANGED <<tableExists, raised>>

\* The orderings ORDER BY created_at DESC may return: rows with the same
\* created_at come in any order.
Orderings(rs) ==
    LET n == Len(rs)
        perms == {p \in [1..n -> 1..n] : \A i, j \in 1..n : p[i] = p[j] => i = j}
    IN  {[i \in 1..n |-> rs[p[i]]] : p \in perms}

\* The SELECT without its ORDER BY.
get_delivery_history_unordered == Orderings(rows)

\* get_delivery_history: the frames the SELECT may return.
get_delivery_history ==
    {h \in Orderings(rows) :
        \A i \in 1..(Len(h) - 1) : h[i].created_at >= h[i + 1].created_at}

(***************************************************************************)
(* The submission (main, lines 231-257).                                   *)
(***************************************************************************)
\* st.button(...) and email_body: a submission is modelled while the store
\* still has identity values to hand out.
Input ==
    /\ pc = "input"
    /\ \E submit \in BOOLEAN :
        /\ submit => nextId <= MaxId
        /\ pc' = IF submit THEN "complete" ELSE "stats"
    /\ UNCHANGED <<ui, failed, raised, openConns, db_fault, stats, history_df>>
    /\ UNCHANGED store
    /\ UNCHANGED pipeline

\* What the completion call may return: None, or choices whose message
\* content is a text carrying a JSON object.
Responses ==
    {[usable |-> TRUE, text |-> t,
      content |-> IF Positions(t, "kv") = {} THEN EmptyObject ELSE o] :
        t \in RawTexts, o \in JsonObjects}
    \cup {[usable |-> FALSE, text |-> <<>>, content |-> EmptyObject]}

\* Lines 239-244 and 256-257: the call, the check of the response and the
\* normalisation of its text.
extract_delivery_details(response) ==
    /\ extracted_json' =
          IF response.usable THEN extract_valid_json(response.text) ELSE <<>>
    /\ content' = response.content
    /\ pc' = IF response.usable THEN "parse" ELSE "stats"
    /\ failed' = IF response.usable THEN failed ELSE failed \cup {"completion"}
    /\ Show(IF response.usable THEN <<>> ELSE <<"error:completion">>)
    /\ UNCHANGED <<parsed_json, text_shown, insert_result>>

Complete ==
    /\ pc = "complete"
    /\ \E response \in Responses : extract_delivery_details(response)
    /\ UNCHANGED <<raised, openConns, db_fault, stats, history_df>>
    /\ UNCHANGED store

\* A handler that goes on with an empty record instead of stopping.
parse_json_lenient(text) ==
    LET value == json_loads(text, content)
    IN  /\ parsed_json' = IF value.kind = "none" THEN EmptyObject ELSE value
        /\ Show(IF value.kind = "none" THEN <<"error:parse", "text">> ELSE <<>>)
        /\ text_shown' = IF value.kind = "none" THEN text ELSE text_shown
        /\ failed' = IF value.kind = "none" THEN failed \cup {"parse"} ELSE failed
        /\ pc' = "display"

\* Lines 246-247 and 253-255: json.loads, and the handler of JSONDecodeError.
parse_json(text) ==
    LET value == json_loads(text, content)
    IN  /\ parsed_json' = value
        /\ IF value.kind = "none"
           THEN /\ Show(<<"error:parse", "text">>)
                /\ text_shown' = text
                /\ failed' = failed \cup {"parse"}
                /\ pc' = "stats"
           ELSE /\ Show(<<>>)
                /\ UNCHANGED <<text_shown, failed>>
                /\ pc' = "display"

ParseJson ==
    /\ pc = "parse"
    /\ parse_json(extracted_json)
    /\ UNCHANGED <<raised, openConns, db_fault, stats, history_df>>
    /\ UNCHANGED <<extracted_json, content, insert_result>>
    /\ UNCHANGED store

\* format_delivery_date is called with data.get("delivery_date", ""); what it
\* does with a value that is no calendar date is not fixed here, so it may
\* return or raise on one.
FormatDateMayRaise(data) ==
    ~(Has(data, "delivery_date") /\ ~IsNull(data, "delivery_date")
      /\ data.val.delivery_date = ValidDate)

\* bool(data.get(f))
Truthy(data, f) == Has(data, f) /\ ~IsNull(data, f) /\ data.val[f] # ""

\* data["delivery"] and data["price_num"] > 0 raise KeyError on a missing key
\* and TypeError on a non-dict or on None > 0.
DisplayReads(data) ==
    /\ Has(data, "delivery")
    /\ Has(data, "price_num")
    /\ ~IsNull(data, "price_num")

\* What display_delivery_details has emitted when it returns or raises.
DisplayElements(data, dateRaises) ==
    <<"current_analysis">>
    \o (IF Has(data, "delivery") THEN <<"badge">> ELSE <<>>)
    \o (IF DisplayReads(data) /\ data.val.price_num > 0 THEN <<"price">> ELSE <<>>)
    \o (IF DisplayReads(data) /\ ~dateRaises THEN <<"details">> ELSE <<>>)
    \o (IF DisplayReads(data) /\ ~dateRaises
           /\ Truthy(data, "tracking_number") /\ Truthy(data, "carrier")
        THEN <<"track_info">> ELSE <<>>)

\* display_delivery_details(parsed_json), line 248: inside the try, whose
\* handler takes JSONDecodeError only.
display_delivery_details(data, dateRaises) ==
    /\ IF DisplayReads(data) /\ ~dateRaises
       THEN /\ Show(DisplayElements(data, dateRaises))
            /\ pc' = "insert"
            /\ UNCHANGED <<failed, raised>>
       ELSE /\ Show(DisplayElements(data, dateRaises) \o <<"exception">>)
            /\ Escapes("display")

Display ==
    /\ pc = "display"
    /\ \E dateRaises \in BOOLEAN :
        /\ dateRaises => FormatDateMayRaise(parsed_json)
        /\ display_delivery_details(parsed_json, dateRaises)
    /\ UNCHANGED <<openConns, db_fault, stats, history_df>>
    /\ UNCHANGED store
    /\ UNCHANGED pipeline

\* Line 250: insert_into_db(parsed_json), then st.success on True.
InsertIntoDb ==
    /\ pc = "insert"
    /\ \E fault \in WriteFaults, tick \in {0, 1} :
        insert_into_db(parsed_json, fault, tick)
    /\ UNCHANGED <<extracted_json, content, parsed_json, text_shown>>
    /\ UNCHANGED <<stats, history_df>>

(***************************************************************************)
(* The statistics block and the history table (main, lines 259-275).       *)
(***************************************************************************)
IsConfirmed(r) == r.val.delivery = "yes"

RECURSIVE SumPrice(_)
\* df['price_num'].sum(): NULL (NaN) prices are skipped.
SumPrice(df) ==
    IF df = <<>> THEN 0
    ELSE (IF "price_num" \in Head(df).nulls THEN 0 ELSE Head(df).val.price_num)
         + SumPrice(Tail(df))

\* f"{x:.1f}" of confirmed / total * 100, in tenths of a percent (rounded to
\* the nearest tenth).
PctTenths(confirmed, total) == (2000 * confirmed + total) \div (2 * total)

\* The metrics with the spend summed over the confirmed rows only.
Statistics_confirmed_spend(df) ==
    IF df = <<>> THEN {}
    ELSE {[total |-> Len(df),
           confirmed |-> Len(SelectSeq(df, IsConfirmed)),
           confirmed_pct |-> PctTenths(Len(SelectSeq(df, IsConfirmed)), Len(df)),
           total_spent |-> SumPrice(SelectSeq(df, IsConfirmed))]}

\* Lines 264-271: the three metrics, computed when the frame is not empty.
Statistics(df) ==
    IF df = <<>> THEN {}
    ELSE LET total_deliveries == Len(df)
             confirmed_deliveries == Len(SelectSeq(df, IsConfirmed))
             total_spent == SumPrice(df)
         IN  {[total |-> total_deliveries,
               confirmed |-> confirmed_deliveries,
               confirmed_pct |-> PctTenths(confirmed_deliveries, total_deliveries),
               total_spent |-> total_spent]}

\* get_delivery_history has no handler and closes the connection on the
\* straight path only.
ReadEscapes(fault) ==
    /\ openConns' = IF fault = "connect" THEN openConns ELSE openConns + 1
    /\ Escapes("history")

StatsBlock ==
    /\ pc = "stats"
    /\ \E fault \in ReadFaults :
        /\ db_fault' = fault
        /\ IF fault = "none"
           THEN \E df \in get_delivery_history :
                   /\ stats' = Statistics(df)
                   /\ Show(<<"statistics">>
                           \o (IF df = <<>> THEN <<>> ELSE <<"metrics">>))
                   /\ pc' = "history"
                   /\ UNCHANGED <<failed, raised, openConns>>
           ELSE /\ ReadEscapes(fault)
                /\ Show(<<"statistics", "exception">>)
                /\ UNCHANGED stats
    /\ UNCHANGED history_df
    /\ UNCHANGED store
    /\ UNCHANGED pipeline

\* display_history_table(get_delivery_history()), line 275.
HistoryTable ==
    /\ pc = "history"
    /\ \E fault \in ReadFaults :
        /\ db_fault' = fault
        /\ IF fault = "none"
           THEN \E df \in get_delivery_history :
                   /\ history_df' = df
                   /\ Show(IF df = <<>> THEN <<"info:no_history">>
                           ELSE <<"history_table">>)
                   /\ pc' = "done"
                   /\ UNCHANGED <<failed, raised, openConns>>
           ELSE /\ ReadEscapes(fault)
                /\ Show(<<"exception">>)
                /\ UNCHANGED history_df
    /\ UNCHANGED stats
    /\ UNCHANGED store
    /\ UNCHANGED pipeline

Next ==
    \/ StartRun
    \/ CreateTable
    \/ Input
    \/ Complete
    \/ ParseJson
    \/ Display
    \/ InsertIntoDb
    \/ StatsBlock
    \/ HistoryTable

Spec == Init /\ [][Next]_vars

(***************************************************************************)
(* Properties.                                                             *)
(***************************************************************************)
PipelineStages == {"completion", "parse", "display", "insert"}

IsErrorMessage(m) == m \in {"error:completion", "error:parse", "error:db"}

IsRecordElement(m) ==
    m \in {"current_analysis", "badge", "price", "details", "track_info"}

Shown(m) == \E i \in 1..Len(ui) : ui[i] = m

ShownBefore(m, n) == \E i, j \in 1..Len(ui) : i < j /\ ui[i] = m /\ ui[j] = n

\* C1: starting from the empty store, after N insert_into_db calls have
\* returned True, every frame get_delivery_history can return holds exactly
\* N records, in non-increasing created_at order, with pairwise different ids.
HistoryMatchesInserts ==
    \A h \in get_delivery_history \cup (IF pc = "done" THEN {history_df} ELSE {}) :
        /\ Len(h) = inserted
        /\ \A i, j \in 1..Len(h) : i < j => h[i].created_at >= h[j].created_at
        /\ \A i, j \in 1..Len(h) : i # j => h[i].id # h[j].id

\* Two inserts at different times succeeded and the history table shows the
\* later one first.
HistoryMatchesInsertsWitness ==
    /\ pc = "done"
    /\ inserted = 2
    /\ Len(history_df) = 2
    /\ history_df[1].created_at > history_df[2].created_at
    /\ history_df[1] = rows[2]

\* C2: when insert_into_db fails in a submission, the extracted record was
\* displayed before the failure and stays displayed, the failure is reported
\* as a database error, and the run goes on.
InsertFailureKeepsRecord ==
    (insert_result = "false" \/ "insert" \in failed) =>
        /\ parsed_json.kind = "dict"
        /\ ShownBefore("details", "error:db")
        /\ raised # "insert"
        /\ pc \in {"stats", "history", "done", "aborted"}

\* An insert failed, and the run ended with the record still on the page.
InsertFailureKeepsRecordWitness ==
    /\ insert_result = "false"
    /\ pc = "done"
    /\ Shown("details")

\* C4: when the completion call gives no usable response, or the normalised
\* text does not parse, the submission stops: no element of the record is
\* displayed, insert_into_db is not called, and after a parse failure the
\* normalised text is what st.text shows.
PipelineStopsOnFailure ==
    (failed \cap {"completion", "parse"} # {}) =>
        /\ \A i \in 1..Len(ui) : ~IsRecordElement(ui[i])
        /\ insert_result = "none"
        /\ ~Shown("success") /\ ~Shown("error:db")
        /\ pc \in {"stats", "history", "done", "aborted"}
        /\ "parse" \in failed =>
              /\ ShownBefore("error:parse", "text")
              /\ text_shown = extracted_json
              /\ parsed_json = NoJson

\* A text that does not parse was shown, and the run finished.
PipelineStopsOnFailureWitness ==
    /\ "parse" \in failed
    /\ pc = "done"
    /\ text_shown # <<>>

\* C3: when get_delivery_history cannot reach the store or its query fails,
\* the call yields an empty frame and the run goes on to the end: nothing
\* escapes main.
HistoryFailureDegrades ==
    "history" \in failed =>
        /\ raised # "history"
        /\ ~Shown("exception")
        /\ pc \in {"history", "done"}

\* The record of a parsed object with every absent key set to its documented
\* default: delivery "no", price_num 0, delivery_date null, the texts "".
WithDefaults(data) ==
    Dict([f \in Fields |->
             IF f \in data.absent
             THEN (IF f = "delivery" THEN "no" ELSE Blank[f])
             ELSE data.val[f]],
         {},
         data.nulls \cup (data.absent \cap {"delivery_date"}))

\* C5: for a parsed JSON object holding any subset of the eight fields, the
\* record that reaches the display and the insert has every absent field at
\* its default, and no step of the submission fails because a field is absent.
AbsentFieldsDefaulted ==
    LET obj == json_loads(extracted_json, content)
    IN  obj.kind = "dict" =>
           /\ pc \in {"display", "insert"} => parsed_json = WithDefaults(obj)
           /\ obj.absent # {} => failed \cap {"display", "insert"} = {}

\* C6: every stored row has delivery "yes" or "no".
StoredDeliveryIsYesOrNo ==
    \A i \in 1..Len(rows) : rows[i].val.delivery \in {"yes", "no"}

RECURSIVE SumOver(_, _)
\* The sum of price_num over the rows at the indices S, NULL counting 0.
SumOver(rs, S) ==
    IF S = {} THEN 0
    ELSE LET i == CHOOSE k \in S : TRUE
         IN  (IF "price_num" \in rs[i].nulls THEN 0 ELSE rs[i].val.price_num)
             + SumOver(rs, S \ {i})

Confirmed(rs) == {i \in 1..Len(rs) : rs[i].val.delivery = "yes"}

\* Whether p tenths of a percent is c / t * 100 to one decimal place.
IsPctOf(p, c, t) ==
    LET d == 10 * p * t - 10000 * c
    IN  2 * (IF d < 0 THEN -d ELSE d) <= 10 * t

StatsBlockDone == pc \in {"history", "done"}

\* C7 (as amended): once the statistics block has run, the metrics are those
\* of the stored rows: total their number, confirmed the number with
\* delivery "yes", total_spent the sum of price_num over all of them,
\* confirmed_pct confirmed / total * 100 (to the one decimal shown); over the
\* empty store no metric is computed or shown, and nothing is divided.
StatisticsMatchSnapshot ==
    StatsBlockDone =>
        IF rows = <<>>
        THEN stats = {} /\ ~Shown("metrics")
        ELSE /\ Cardinality(stats) = 1
             /\ Shown("metrics")
             /\ \A m \in stats :
                   /\ m.total = Len(rows)
                   /\ m.confirmed = Cardinality(Confirmed(rows))
                   /\ m.total_spent = SumOver(rows, 1..Len(rows))
                   /\ IsPctOf(m.confirmed_pct, m.confirmed, m.total)

\* Two rows, one confirmed and one not, both with a price.
StatisticsMatchSnapshotWitness ==
    /\ pc = "done"
    /\ Len(rows) = 2
    /\ Cardinality(Confirmed(rows)) = 1
    /\ \E m \in stats : m.total_spent = 6 /\ m.confirmed_pct = 500

\* C7 as stated: the same, and over the empty store the metrics are total 0,
\* confirmed 0, confirmed_pct 0, total_spent 0.
StatisticsOfEmptyAreZero ==
    StatsBlockDone =>
        /\ Cardinality(stats) = 1
        /\ \A m \in stats :
              /\ m.total = Len(rows)
              /\ m.confirmed = Cardinality(Confirmed(rows))
              /\ m.total_spent = SumOver(rows, 1..Len(rows))
              /\ IF m.total > 0
                 THEN IsPctOf(m.confirmed_pct, m.confirmed, m.total)
                 ELSE m.confirmed_pct = 0

\* C8: a call of create_table_if_not_exists on a store that already holds the
\* table leaves the table, its rows and the identity counter as they are,
\* and raises nothing unless the store itself fails the call.
CreateTableIdempotent ==
    [][(pc = "create" /\ tableExists) =>
          /\ tableExists'
          /\ rows' = rows
          /\ nextId' = nextId
          /\ db_fault' = "none" => (pc' = "input" /\ raised' = "none" /\ ui' = ui)]_vars

\* The table held a row when a later run called create_table_if_not_exists
\* and went on.
CreateTableIdempotentWitness ==
    /\ pc = "input"
    /\ Len(rows) >= 1
    /\ db_fault = "none"

\* C9: every store call has closed the connection it opened by the time it
\* returns or raises.
ConnectionsClosed == openConns = 0

\* C10: every failure of a submission shows exactly one error message, the
\* one of the stage that failed, and no failure escapes without one.
EveryFailureHasItsMessage ==
    LET errors == SelectSeq(ui, IsErrorMessage)
    IN  /\ "completion" \in failed => errors = <<"error:completion">>
        /\ "parse" \in failed => errors = <<"error:parse">>
        /\ "insert" \in failed => errors = <<"error:db">>
        /\ raised \notin PipelineStages

====
